---- MODULE Spec2Model ----
(***************************************************************************)
(* Model of app.py, the Streamlit financial data dashboard:                *)
(*   load_data   read data/financial.csv, coerce the 15 numeric columns,   *)
(*               fill their missing cells with the column median, fill     *)
(*               Customer_Segment with "Unknown" (behind st.cache_data);   *)
(*   the script  slider and multiselect in the sidebar, the boolean-mask   *)
(*               filter, describe().                                       *)
(*                                                                         *)
(* Text is a sequence of one-character strings, so that parsing is a       *)
(* computation.  A number x is held as the integer x * Scale.              *)
(***************************************************************************)
EXTENDS Integers, Sequences, FiniteSets, TLC

VARIABLES file, df, df2, pc, cache, age_range, customer_segment, filtered_df, summary

vars == <<file, df, df2, pc, cache, age_range, customer_segment, filtered_df, summary>>

----------------------------------------------------------------------------
(* Bounds *)

\* Decimal places a numeric token of the bounded inputs may carry.
FracDigits == 1

\* x is held as x * Scale; the factor 2 keeps the mean of two tokens exact.
Scale == 2 * (10 ^ FracDigits)

\* Largest number of records of a file in each specification.
MaxRows == 4
MaxFilterRows == 3
MaxRunRows == 3

----------------------------------------------------------------------------
(* Columns *)

numeric_columns ==
    { "Age", "Annual_Income", "Monthly_Expenses", "Savings_Rate",
      "Debt_to_Income_Ratio", "Current_Investments_Value", "Total_Loan_Amount",
      "Avg_Credit_Score", "Inflation_Rate", "Interest_Rate", "Years_of_Employment",
      "Job_Stability_Score", "Emergency_Fund_Value", "Retirement_Fund_Contribution",
      "Future_Balance" }

Columns == numeric_columns \cup {"Customer_Segment"}

Gold == <<"G", "o", "l", "d">>
Silver == <<"S", "i", "l", "v", "e", "r">>
Unknown == <<"U", "n", "k", "n", "o", "w", "n">>

----------------------------------------------------------------------------
(* Cells of a DataFrame: a float, a string (object), or NaN. *)

NaN == [kind |-> "nan", txt |-> <<>>, v |-> 0]
Num(x) == [kind |-> "num", txt |-> <<>>, v |-> x]
Str(t) == [kind |-> "str", txt |-> t, v |-> 0]

isna(c) == c.kind = "nan"

\* A DataFrame: the index labels and one sequence of cells per column.
NRows(frame) == Len(frame.index)

EmptyFrame == [index |-> <<>>, data |-> [c \in Columns |-> <<>>]]

\* The rows at the given positions, with their index labels.
take(frame, pos) ==
    [index |-> [k \in 1..Len(pos) |-> frame.index[pos[k]]],
     data  |-> [c \in Columns |-> [k \in 1..Len(pos) |-> frame.data[c][pos[k]]]]]

\* The positions 1..n that satisfy keep, in increasing order.
RECURSIVE Positions(_, _)
Positions(n, keep) ==
    IF n = 0 THEN <<>>
    ELSE IF keep[n] THEN Append(Positions(n - 1, keep), n)
    ELSE Positions(n - 1, keep)

----------------------------------------------------------------------------
(* Parsing of a field as a float: [-] digits [. digits], at least one      *)
(* digit.  Exact for at most FracDigits decimal places.                     *)

DigitVal ==
    ("0" :> 0) @@ ("1" :> 1) @@ ("2" :> 2) @@ ("3" :> 3) @@ ("4" :> 4) @@
    ("5" :> 5) @@ ("6" :> 6) @@ ("7" :> 7) @@ ("8" :> 8) @@ ("9" :> 9)

AllDigits(s) == \A i \in 1..Len(s) : s[i] \in DOMAIN DigitVal

RECURSIVE DigitsValue(_)
DigitsValue(s) ==
    IF s = <<>> THEN 0
    ELSE DigitsValue(SubSeq(s, 1, Len(s) - 1)) * 10 + DigitVal[s[Len(s)]]

ParseFloat(tok) ==
    LET neg  == Len(tok) > 0 /\ tok[1] = "-"
        body == IF neg THEN Tail(tok) ELSE tok
        dots == { i \in 1..Len(body) : body[i] = "." }
        dot  == IF dots = {} THEN Len(body) + 1 ELSE CHOOSE i \in dots : TRUE
        ip   == SubSeq(body, 1, dot - 1)
        fp   == SubSeq(body, dot + 1, Len(body))
        ok   == /\ Cardinality(dots) <= 1
                /\ AllDigits(ip) /\ AllDigits(fp)
                /\ Len(ip) + Len(fp) > 0
        mag  == DigitsValue(ip) * Scale + (DigitsValue(fp) * Scale) \div (10 ^ Len(fp))
    IN  IF ok THEN Num(IF neg THEN 0 - mag ELSE mag) ELSE NaN

----------------------------------------------------------------------------
(* pd.read_csv with its defaults *)

\* The fields read_csv reads as missing (keep_default_na=True).
NaValues ==
    { <<>>,
      <<"#", "N", "/", "A">>,
      <<"#", "N", "/", "A", " ", "N", "/", "A">>,
      <<"#", "N", "A">>,
      <<"-", "1", ".", "#", "I", "N", "D">>,
      <<"-", "1", ".", "#", "Q", "N", "A", "N">>,
      <<"-", "N", "a", "N">>,
      <<"-", "n", "a", "n">>,
      <<"1", ".", "#", "I", "N", "D">>,
      <<"1", ".", "#", "Q", "N", "A", "N">>,
      <<"<", "N", "A", ">">>,
      <<"N", "/", "A">>,
      <<"N", "A">>,
      <<"N", "U", "L", "L">>,
      <<"N", "a", "N">>,
      <<"N", "o", "n", "e">>,
      <<"n", "/", "a">>,
      <<"n", "a", "n">>,
      <<"n", "u", "l", "l">> }

\* One column of the file: missing markers become NaN; the column is a float
\* column when every other field parses, an object column of strings otherwise.
ReadColumn(toks) ==
    LET numeric == \A i \in 1..Len(toks) :
                       toks[i] \in NaValues \/ ~isna(ParseFloat(toks[i]))
    IN  [i \in 1..Len(toks) |->
            IF toks[i] \in NaValues THEN NaN
            ELSE IF numeric THEN ParseFloat(toks[i])
            ELSE Str(toks[i])]

FileRows(f) == Len(f["Age"])

\* read_csv with keep_default_na=False: no field is read as missing.
read_csv_keep_na(f) ==
    [index |-> [i \in 1..FileRows(f) |-> i - 1],
     data  |-> [c \in Columns |-> [i \in 1..FileRows(f) |-> Str(f[c][i])]]]

\* RangeIndex 0..n-1 and the columns of the header.
read_csv(f) ==
    [index |-> [i \in 1..FileRows(f) |-> i - 1],
     data  |-> [c \in Columns |-> ReadColumn(f[c])]]

----------------------------------------------------------------------------
(* pd.to_numeric(col, errors='coerce') *)

to_numeric(col) ==
    [i \in 1..Len(col) |->
        IF col[i].kind = "str" THEN ParseFloat(col[i].txt) ELSE col[i]]

----------------------------------------------------------------------------
(* DataFrame.median (skipna) of one column *)

RECURSIVE Insert(_, _)
Insert(x, s) ==
    IF s = <<>> THEN <<x>>
    ELSE IF x <= Head(s) THEN <<x>> \o s
    ELSE <<Head(s)>> \o Insert(x, Tail(s))

RECURSIVE sort_values(_)
sort_values(s) == IF s = <<>> THEN <<>> ELSE Insert(Head(s), sort_values(Tail(s)))

\* The values of the cells that are not NaN, in row order.
SetValues(col) ==
    LET kept == SelectSeq(col, LAMBDA c : ~isna(c))
    IN  [i \in 1..Len(kept) |-> kept[i].v]

\* NaN for a column without a value.  The halving is exact on parsed values;
\* a median of already filled values is computed but never used by fillna.
median(col) ==
    LET vals == sort_values(SetValues(col))
        n    == Len(vals)
    IN  IF n = 0 THEN NaN
        ELSE IF n % 2 = 1 THEN Num(vals[(n + 1) \div 2])
        ELSE Num((vals[n \div 2] + vals[n \div 2 + 1]) \div 2)

----------------------------------------------------------------------------
(* fillna: every NaN cell takes the value, unless the value is NaN itself *)

\* fillna(limit=1): only the first NaN cell is filled.
fillna_limit(col, value) ==
    [i \in 1..Len(col) |->
        IF isna(col[i]) /\ ~isna(value) /\ (\A j \in 1..(i - 1) : ~isna(col[j]))
        THEN value ELSE col[i]]

fillna(col, value) ==
    [i \in 1..Len(col) |-> IF isna(col[i]) /\ ~isna(value) THEN value ELSE col[i]]

----------------------------------------------------------------------------
(* The cleaning steps of load_data on a frame (lines 24-31) *)

clean(frame) ==
    LET coerced == [c \in Columns |->
                       IF c \in numeric_columns THEN to_numeric(frame.data[c])
                       ELSE frame.data[c]]
        filled  == [c \in Columns |->
                       IF c \in numeric_columns
                       THEN fillna(coerced[c], median(coerced[c]))
                       ELSE fillna(coerced[c], Str(Unknown))]
    IN  [index |-> frame.index, data |-> filled]

\* dropna() in place of the median fill: rows with a NaN numeric cell go.
load_data_dropna(f) ==
    LET raw     == read_csv(f)
        coerced == [c \in Columns |->
                       IF c \in numeric_columns THEN to_numeric(raw.data[c])
                       ELSE fillna(raw.data[c], Str(Unknown))]
        keep    == [i \in 1..NRows(raw) |->
                       \A c \in numeric_columns : ~isna(coerced[c][i])]
    IN  take([index |-> raw.index, data |-> coerced], Positions(NRows(raw), keep))

load_data(f) == clean(read_csv(f))

----------------------------------------------------------------------------
(* The sidebar widgets (lines 43-49) *)

\* Python's int() of a float: truncation toward zero, in whole units.
int(x) == IF x >= 0 THEN x \div Scale ELSE 0 - ((0 - x) \div Scale)

\* Series.min() and Series.max() skip NaN and are NaN without a value.
min(col) ==
    LET vals == sort_values(SetValues(col))
    IN  IF vals = <<>> THEN NaN ELSE Num(vals[1])

max(col) ==
    LET vals == sort_values(SetValues(col))
    IN  IF vals = <<>> THEN NaN ELSE Num(vals[Len(vals)])

\* The default of the slider, (int(min Age), int(max Age)), as numbers.
SliderDefault(frame) ==
    <<int(min(frame.data["Age"]).v) * Scale, int(max(frame.data["Age"]).v) * Scale>>

\* The values the slider can return: lo <= hi, whole numbers of its range.
SliderValues(frame) ==
    LET lo0 == int(min(frame.data["Age"]).v)
        hi0 == int(max(frame.data["Age"]).v)
    IN  { <<p[1] * Scale, p[2] * Scale>> :
              p \in { q \in (lo0..hi0) \X (lo0..hi0) : q[1] <= q[2] } }

\* Series.unique() of Customer_Segment: the options of the multiselect.
unique(col) == { col[i].txt : i \in 1..Len(col) }

----------------------------------------------------------------------------
(* The filter (lines 52-56) *)

\* Series >= x and Series <= x: False on NaN.
ge(col, x) == [i \in 1..Len(col) |-> col[i].kind = "num" /\ col[i].v >= x]
le(col, x) == [i \in 1..Len(col) |-> col[i].kind = "num" /\ col[i].v <= x]

\* Series < x, the strict comparison.
lt(col, x) == [i \in 1..Len(col) |-> col[i].kind = "num" /\ col[i].v < x]

\* isin where an empty selection selects every row.
isin_or_all(col, values) ==
    [i \in 1..Len(col) |-> values = {} \/ (col[i].kind = "str" /\ col[i].txt \in values)]

isin(col, values) ==
    [i \in 1..Len(col) |-> col[i].kind = "str" /\ col[i].txt \in values]

\* The mask with the upper bound excluded.
FilterMask_strict(frame, ar, cs) ==
    LET a == ge(frame.data["Age"], ar[1])
        b == lt(frame.data["Age"], ar[2])
        s == isin(frame.data["Customer_Segment"], cs)
    IN  [i \in 1..NRows(frame) |-> a[i] /\ b[i] /\ s[i]]

FilterMask(frame, ar, cs) ==
    LET a == ge(frame.data["Age"], ar[1])
        b == le(frame.data["Age"], ar[2])
        s == isin(frame.data["Customer_Segment"], cs)
    IN  [i \in 1..NRows(frame) |-> a[i] /\ b[i] /\ s[i]]

\* Dropping the unselected rows from the frame itself (inplace).
getitem_inplace(frame, mask) ==
    LET sel == take(frame, Positions(NRows(frame), mask))
    IN  [self |-> sel, out |-> sel]

\* frame[mask]: a new frame of the selected rows; the frame is left as it is.
getitem(frame, mask) ==
    [self |-> frame, out |-> take(frame, Positions(NRows(frame), mask))]

----------------------------------------------------------------------------
(* describe() (line 60): count, min and max of each numeric column; the      *)
(* mean, the deviation and the quartiles are not represented.               *)

describe(frame) ==
    [self |-> frame,
     out  |-> [c \in numeric_columns |->
                  [count |-> Len(SetValues(frame.data[c])),
                   min   |-> min(frame.data[c]),
                   max   |-> max(frame.data[c])]]]

----------------------------------------------------------------------------
(* st.cache_data around load_data(): one entry for the argument-less call,  *)
(* a fresh copy of the stored table on every hit.                           *)

NoCache == [valid |-> FALSE, value |-> EmptyFrame]

cached_load_data(c, f) ==
    IF c.valid THEN [cache |-> c, out |-> c.value]
    ELSE LET t == load_data(f) IN [cache |-> [valid |-> TRUE, value |-> t], out |-> t]

----------------------------------------------------------------------------
(* Bounded inputs *)

Bad == <<"b", "a", "d">>

\* A record (line) of the file: its Age field, the field shared by the 14
\* other numeric columns, its Customer_Segment field.
Rec(a, o, s) == [age |-> a, other |-> o, seg |-> s]

\* The file made of a sequence of records.
MakeFile(recs) ==
    [c \in Columns |->
        [i \in 1..Len(recs) |->
            IF c = "Age" THEN recs[i].age
            ELSE IF c = "Customer_Segment" THEN recs[i].seg
            ELSE recs[i].other]]

LoadRecords ==
    { Rec(<<"2">>, <<"7">>, Gold),
      Rec(<<"3", ".", "5">>, <<"N", "A">>, <<>>),
      Rec(<<"-", "0", ".", "5">>, <<"1", "2">>, <<"N", "A">>),
      Rec(Bad, <<"7">>, Silver),
      Rec(<<>>, <<"N", "A">>, Gold),
      Rec(Bad, Bad, <<>>) }

----------------------------------------------------------------------------
(* Specification of load_data as a function of the file *)

\* Before the first statement: a file of at most maxn of the records.
InitWith(records, maxn) ==
    /\ \E n \in 0..maxn : \E recs \in [1..n -> records] : file = MakeFile(recs)
    /\ df = EmptyFrame
    /\ df2 = EmptyFrame
    /\ pc = "start"
    /\ cache = NoCache
    /\ age_range = <<0, 0>>
    /\ customer_segment = {}
    /\ filtered_df = EmptyFrame
    /\ summary = <<>>

InitLoad == InitWith(LoadRecords, MaxRows)

LoadData ==
    /\ pc = "start"
    /\ df' = load_data(file)
    /\ pc' = "loaded"
    /\ UNCHANGED <<file, df2, cache, age_range, customer_segment, filtered_df, summary>>

\* The cleaning steps applied to the table load_data returned.
CleanAgain ==
    /\ pc = "loaded"
    /\ df2' = clean(df)
    /\ pc' = "cleaned"
    /\ UNCHANGED <<file, df, cache, age_range, customer_segment, filtered_df, summary>>

NextLoad == LoadData \/ CleanAgain

SpecLoad == InitLoad /\ [][NextLoad]_vars

----------------------------------------------------------------------------
(* Specification of the filter as a function of the table, the range and    *)
(* the selection                                                            *)

FilterRecords ==
    { Rec(<<"2">>, <<"7">>, Gold),
      Rec(<<"2">>, <<"7">>, Silver),
      Rec(<<"3", ".", "5">>, <<"N", "A">>, Silver),
      Rec(<<"-", "0", ".", "5">>, <<"7">>, <<>>),
      Rec(Bad, <<"7">>, Gold) }

\* Range bounds: -1, 0, 2, 3.5 and 4.
FilterBounds == { 0 - Scale, 0, 2 * Scale, (7 * Scale) \div 2, 4 * Scale }

FilterLabels == { Gold, Silver, Unknown }

InitFilter == InitWith(FilterRecords, MaxFilterRows)

ApplyFilter ==
    /\ pc = "loaded"
    /\ \E lo \in FilterBounds, hi \in FilterBounds, cs \in SUBSET FilterLabels :
          LET r == getitem(df, FilterMask(df, <<lo, hi>>, cs))
          IN  /\ age_range' = <<lo, hi>>
              /\ customer_segment' = cs
              /\ df' = r.self
              /\ filtered_df' = r.out
    /\ pc' = "filtered"
    /\ UNCHANGED <<file, df2, cache, summary>>

NextFilter == LoadData \/ ApplyFilter

SpecFilter == InitFilter /\ [][NextFilter]_vars

----------------------------------------------------------------------------
(* Specification of the script: runs of app.py in one server process, and   *)
(* data/financial.csv growing by appended records                           *)

RunRecords ==
    { Rec(<<"2">>, <<"7">>, Gold),
      Rec(<<"3", ".", "5">>, <<"7">>, <<>>),
      Rec(<<"-", "0", ".", "5">>, <<"N", "A">>, Silver),
      Rec(Bad, <<"7">>, Gold) }

Init == InitWith(RunRecords, MaxRunRows)

\* A run starts (first run, or rerun after a widget change) and executes
\* df = load_data() (line 36).
RunLoad ==
    /\ pc \in {"start", "done", "error"}
    /\ LET r == cached_load_data(cache, file)
       IN  /\ cache' = r.cache
           /\ df' = r.out
    /\ age_range' = <<0, 0>>
    /\ customer_segment' = {}
    /\ filtered_df' = EmptyFrame
    /\ summary' = <<>>
    /\ pc' = "slider"
    /\ UNCHANGED <<file, df2>>

\* Lines 43-46: int() raises ValueError on NaN (no Age value at all).
Slider ==
    /\ pc = "slider"
    /\ IF isna(min(df.data["Age"]))
       THEN /\ pc' = "error"
            /\ UNCHANGED age_range
       ELSE /\ age_range' \in SliderValues(df)
            /\ pc' = "multiselect"
    /\ UNCHANGED <<file, df, df2, cache, customer_segment, filtered_df, summary>>

\* Lines 47-49.
Multiselect ==
    /\ pc = "multiselect"
    /\ customer_segment' \in SUBSET unique(df.data["Customer_Segment"])
    /\ pc' = "filter"
    /\ UNCHANGED <<file, df, df2, cache, age_range, filtered_df, summary>>

\* Lines 52-56.
Filter ==
    /\ pc = "filter"
    /\ LET r == getitem(df, FilterMask(df, age_range, customer_segment))
       IN  /\ df' = r.self
           /\ filtered_df' = r.out
    /\ pc' = "describe"
    /\ UNCHANGED <<file, df2, cache, age_range, customer_segment, summary>>

\* Lines 59-60.
Describe ==
    /\ pc = "describe"
    /\ LET r == describe(filtered_df)
       IN  /\ filtered_df' = r.self
           /\ summary' = r.out
    /\ pc' = "done"
    /\ UNCHANGED <<file, df, df2, cache, age_range, customer_segment>>

\* The file with one more record at its end.
AppendRecord(f, rec) ==
    [c \in Columns |-> f[c] \o MakeFile(<<rec>>)[c]]

\* data/financial.csv changes on disk.
FileAppend ==
    /\ FileRows(file) < MaxRunRows
    /\ \E rec \in RunRecords : file' = AppendRecord(file, rec)
    /\ UNCHANGED <<df, df2, pc, cache, age_range, customer_segment, filtered_df, summary>>

\* The cache is cleared (st.cache_data.clear(), or the server restarts
\* between two runs).
ClearCache ==
    /\ cache.valid
    /\ cache' = NoCache
    /\ UNCHANGED <<file, df, df2, pc, age_range, customer_segment, filtered_df, summary>>

Next == RunLoad \/ Slider \/ Multiselect \/ Filter \/ Describe \/ FileAppend \/ ClearCache

Spec == Init /\ [][Next]_vars

----------------------------------------------------------------------------
(* Properties of load_data *)

\* The field holds a value: it is not a missing marker and it parses.
FieldSet(tok) == tok \notin NaValues /\ ~isna(ParseFloat(tok))

\* The positions of the fields of a column of the file that hold a value.
SetPositions(f, c) == { i \in 1..FileRows(f) : FieldSet(f[c][i]) }

\* The k-th smallest parsed value of a column of the file (k in 1..count).
OrderStat(f, c, k) ==
    LET S == SetPositions(f, c)
        val(i) == ParseFloat(f[c][i]).v
    IN  CHOOSE x \in { val(i) : i \in S } :
            /\ Cardinality({ i \in S : val(i) < x }) < k
            /\ k <= Cardinality({ i \in S : val(i) <= x })

\* C1: after load_data no cell of a numeric column is unset; a cell whose
\* field held a value keeps the parsed value, and every other cell holds the
\* median of the values the column's fields held (twice the median is the sum
\* of the two middle order statistics, which coincide for an odd count).
C1_MedianImputed ==
    pc # "start" =>
        \A c \in numeric_columns : \A i \in 1..FileRows(file) :
            LET cell == df.data[c][i]
                n    == Cardinality(SetPositions(file, c))
            IN  /\ cell.kind = "num"
                /\ FieldSet(file[c][i]) => cell.v = ParseFloat(file[c][i]).v
                /\ ~FieldSet(file[c][i]) =>
                       2 * cell.v = OrderStat(file, c, (n + 1) \div 2)
                                    + OrderStat(file, c, (n + 2) \div 2)

\* C3: load_data returns no table for a file with records in which some
\* numeric column has no field that holds a value.
C3_NoValidDataFails ==
    (pc # "start" /\ FileRows(file) > 0) =>
        \A c \in numeric_columns : SetPositions(file, c) # {}

\* C5: the table load_data returns has as many rows as the table read from
\* the file, one per record, in every column.
C5_RowCountPreserved ==
    pc # "start" =>
        /\ NRows(df) = NRows(read_csv(file))
        /\ NRows(df) = FileRows(file)
        /\ \A c \in Columns : Len(df.data[c]) = FileRows(file)

C5_Witness ==
    /\ pc = "loaded"
    /\ NRows(df) >= 3
    /\ \E i \in 1..FileRows(file) :
          file["Age"][i] = Bad /\ file["Customer_Segment"][i] = <<>>

\* C6: after load_data every Customer_Segment cell is a non-empty string:
\* "Unknown" where the field was empty or a missing marker, the field itself
\* everywhere else.
C6_SegmentFilled ==
    pc # "start" =>
        \A i \in 1..FileRows(file) :
            LET tok  == file["Customer_Segment"][i]
                cell == df.data["Customer_Segment"][i]
            IN  /\ cell.kind = "str"
                /\ cell.txt # <<>>
                /\ tok \in NaValues => cell.txt = Unknown
                /\ tok \notin NaValues => cell.txt = tok

C6_Witness ==
    /\ pc = "loaded"
    /\ \E i, j, k \in 1..FileRows(file) :
          /\ file["Customer_Segment"][i] = <<>>
          /\ file["Customer_Segment"][j] = <<"N", "A">>
          /\ file["Customer_Segment"][k] = Gold
          /\ df.data["Customer_Segment"][i].txt = Unknown
          /\ df.data["Customer_Segment"][k].txt = Gold

\* C7: the cleaning steps applied to the table load_data returned change no
\* cell.
C7_Idempotent == pc = "cleaned" => df2 = df

C7_Witness ==
    /\ pc = "cleaned"
    /\ \E i, j \in 1..FileRows(file) :
          /\ i # j
          /\ ~FieldSet(file["Age"][i]) /\ ~FieldSet(file["Age"][j])
          /\ df.data["Age"][i].kind = "num"
          /\ df2.data["Age"][j].kind = "num"
          /\ file["Customer_Segment"][i] \in NaValues

----------------------------------------------------------------------------
(* Properties of the filter *)

\* Row i of the table lies in the range and carries a selected label.
Matches(i) ==
    /\ df.data["Age"][i].kind = "num"
    /\ age_range[1] <= df.data["Age"][i].v
    /\ df.data["Age"][i].v <= age_range[2]
    /\ df.data["Customer_Segment"][i].txt \in customer_segment

\* C2: the filtered table holds exactly the rows with lo <= Age <= hi and a
\* selected Customer_Segment: its index labels increase strictly (original
\* order, no row twice), each labelled row is the matching row of the table,
\* and every matching row of the table is present.
C2_FilterExact ==
    pc = "filtered" =>
        /\ \A k \in 1..NRows(filtered_df) :
              LET i == filtered_df.index[k] + 1
              IN  /\ i \in 1..NRows(df)
                  /\ Matches(i)
                  /\ \A c \in Columns : filtered_df.data[c][k] = df.data[c][i]
                  /\ k > 1 => filtered_df.index[k - 1] < filtered_df.index[k]
        /\ \A i \in 1..NRows(df) :
              Matches(i) => \E k \in 1..NRows(filtered_df) : filtered_df.index[k] = i - 1
        /\ \A c \in Columns : Len(filtered_df.data[c]) = NRows(filtered_df)

C2_Witness ==
    /\ pc = "filtered"
    /\ age_range[1] = age_range[2]
    /\ NRows(filtered_df) = 1
    /\ filtered_df.index[1] > 0
    /\ filtered_df.data["Age"][1].v = age_range[1]
    /\ \E i \in 1..NRows(df) :
          /\ df.data["Age"][i].v = age_range[1]
          /\ df.data["Customer_Segment"][i].txt \notin customer_segment

\* C8: an empty selection of labels, or a range with lo > hi, gives an empty
\* filtered table.
C8_DegenerateEmpty ==
    (pc = "filtered" /\ (customer_segment = {} \/ age_range[1] > age_range[2])) =>
        /\ NRows(filtered_df) = 0
        /\ \A c \in Columns : filtered_df.data[c] = <<>>

C8_Witness ==
    /\ pc = "filtered"
    /\ customer_segment = {}
    /\ age_range[1] < age_range[2]
    /\ \E i \in 1..NRows(df) :
          /\ df.data["Age"][i].kind = "num"
          /\ age_range[1] <= df.data["Age"][i].v
          /\ df.data["Age"][i].v <= age_range[2]
    /\ NRows(filtered_df) = 0

----------------------------------------------------------------------------
(* Properties of the script *)

\* C4: a run works on the table normalized from the content the file has
\* when the run loads it.
C4_CacheFollowsFile ==
    [][(pc # "slider" /\ pc' = "slider") => df' = load_data(file)]_vars

\* C9: once a run has loaded the table, no later step of the run (widgets,
\* filter, describe) changes a cell of it, and the table kept by the cache
\* is never changed while it is kept.
C9_TableImmutable ==
    [][/\ (pc # "slider" /\ pc' = "slider") \/ df' = df
       /\ (cache.valid /\ cache'.valid) => cache'.value = cache.value]_vars

C9_Witness ==
    /\ pc = "done"
    /\ NRows(df) = 2
    /\ NRows(filtered_df) = 1
    /\ summary["Age"].count = 1
    /\ df = cache.value

\* C10: with the slider and the multiselect at their defaults the filtered
\* table is the whole table.
C10_DefaultsKeepAll ==
    (/\ pc \in {"describe", "done"}
     /\ age_range = SliderDefault(df)
     /\ customer_segment = unique(df.data["Customer_Segment"]))
        => filtered_df = df

====
